---------------------------- MODULE Spec2Model ----------------------------
(***************************************************************************)
(* A model of src/src/worker-helpers.js (linter-eslint): the helpers that  *)
(* locate the ESLint package, find the configuration file, choose the      *)
(* working directory, read the rule list of an engine and compare two rule *)
(* lists.                                                                  *)
(*                                                                         *)
(* Path strings are records [abs, segs]: abs says whether the string       *)
(* starts with the separator, segs are its components.  The empty string   *)
(* is [abs |-> FALSE, segs |-> <<>>]; null/undefined is Null.              *)
(***************************************************************************)
EXTENDS Naturals, Sequences, FiniteSets, TLC

VARIABLES
  NODE_PREFIX_PATH,   \* Cache.NODE_PREFIX_PATH
  LAST_MODULES_PATH,  \* Cache.LAST_MODULES_PATH
  NODE_PATH,          \* process.env.NODE_PATH
  cwd,                \* process.cwd()
  dirs,               \* the directories of the filesystem (sets of segs)
  files,              \* the regular files of the filesystem
  embedded,           \* the package.json files that hold an eslintConfig
  call,               \* the last call: the operation and its arguments
  ret                 \* what the last call returned or threw

vars == <<NODE_PREFIX_PATH, LAST_MODULES_PATH, NODE_PATH, cwd, dirs, files,
          embedded, call, ret>>

-----------------------------------------------------------------------------
(* Values *)

Null == [null |-> TRUE]

Abs(segs) == [abs |-> TRUE, segs |-> segs]

Rel(segs) == [abs |-> FALSE, segs |-> segs]

EmptyStr == Rel(<<>>)

Dot == Rel(<<".">>)

\* JavaScript truthiness of a string-or-null value
Truthy(p) == p # Null /\ p # EmptyStr

-----------------------------------------------------------------------------
(* The path module *)

RECURSIVE NormSegs(_, _, _)
\* Path.normalize on the components: "." is dropped, ".." removes the
\* component before it (nothing above the root of an absolute path).
NormSegs(todo, done, isAbs) ==
  IF todo = <<>> THEN done
  ELSE LET s == Head(todo) IN
       IF s = "." THEN NormSegs(Tail(todo), done, isAbs)
       ELSE IF s = ".." THEN
              IF done # <<>> /\ done[Len(done)] # ".."
                THEN NormSegs(Tail(todo), SubSeq(done, 1, Len(done) - 1), isAbs)
              ELSE IF isAbs THEN NormSegs(Tail(todo), done, isAbs)
              ELSE NormSegs(Tail(todo), Append(done, s), isAbs)
       ELSE NormSegs(Tail(todo), Append(done, s), isAbs)

\* Path.normalize: the empty relative result is "."
Normalize(p) ==
  LET n == NormSegs(p.segs, <<>>, p.abs) IN
  IF ~p.abs /\ n = <<>> THEN Dot ELSE [abs |-> p.abs, segs |-> n]

RECURSIVE JoinRaw(_)
\* the parts of Path.join glued with the separator, empty parts skipped
JoinRaw(parts) ==
  IF parts = <<>> THEN EmptyStr
  ELSE LET h == Head(parts)
           r == JoinRaw(Tail(parts)) IN
       IF h = EmptyStr THEN r
       ELSE [abs |-> h.abs, segs |-> h.segs \o r.segs]

\* Path.join(...parts)
Join(parts) == Normalize(JoinRaw(parts))

\* Path.isAbsolute
IsAbsolute(p) == p.abs

\* Path.dirname: dirname('') = dirname('a') = '.', dirname('/a') = '/'
Dirname(p) ==
  IF Len(p.segs) <= 1
    THEN (IF p.abs THEN Abs(<<>>) ELSE Dot)
  ELSE [abs |-> p.abs, segs |-> SubSeq(p.segs, 1, Len(p.segs) - 1)]

\* Path.basename
Basename(p) ==
  IF p.segs = <<>> THEN EmptyStr ELSE Rel(<<p.segs[Len(p.segs)]>>)

\* Path.resolve(base, p) for an absolute base
Resolve(base, p) ==
  IF p.abs THEN Normalize(p) ELSE Normalize(Abs(base.segs \o p.segs))

RECURSIVE CommonLen(_, _)
\* the number of leading components a and b share
CommonLen(a, b) ==
  IF a = <<>> \/ b = <<>> \/ Head(a) # Head(b) THEN 0
  ELSE 1 + CommonLen(Tail(a), Tail(b))

\* up from f past what it does not share with t (n components shared), then
\* down to t
UpThenDown(f, t, n) ==
  Rel([i \in 1..(Len(f) - n) |-> ".."] \o SubSeq(t, n + 1, Len(t)))

RelativeSegs(f, t) == UpThenDown(f, t, CommonLen(f, t))

\* Path.relative(from, to); both are resolved against the working directory
Relative(from, to, cwdv) ==
  RelativeSegs(Resolve(cwdv, from).segs, Resolve(cwdv, to).segs)

-----------------------------------------------------------------------------
(* The filesystem *)

\* fs.statSync(dirPath).isDirectory(), false when stat throws
isDirectory(dirPath, cwdv) == Resolve(cwdv, dirPath).segs \in dirs

\* FS.accessSync(filePath, R_OK) does not throw
Readable(p) == p.segs \in (dirs \cup files)

RECURSIVE FirstReadable(_, _)
\* the first name of the list that is readable in directory dir, or Null
FirstReadable(dir, names) ==
  IF names = <<>> THEN Null
  ELSE LET filePath == Join(<<dir, Head(names)>>) IN
       IF Readable(filePath) THEN filePath
       ELSE FirstReadable(dir, Tail(names))

RECURSIVE findCached(_, _)
\* atom-linter's find: from directory upward, the first readable name of the
\* nearest directory that holds one; Null above the root.
findCached(directory, names) ==
  LET hit == FirstReadable(directory, names) IN
  IF hit # Null THEN hit
  ELSE IF directory.segs = <<>> THEN Null
  ELSE findCached(Dirname(directory), names)

-----------------------------------------------------------------------------
(* The process environment *)

\* the home directory, which fs.normalize puts in place of a leading "~"
HomeDir == Abs(<<"home">>)

\* process.env: the variables a path may name, with their values
EnvVars == [x \in {"$OPT"} |-> Abs(<<"opt">>)]

\* Cache.ESLINT_LOCAL_PATH: <package>/node_modules/eslint, normalized
ESLINT_LOCAL_PATH ==
  Normalize(Join(<<Abs(<<"atom", "lib">>), Rel(<<"..">>),
                   Rel(<<"node_modules">>), Rel(<<"eslint">>)>>))

\* fs-plus normalize: Path.normalize, then a leading "~" becomes the home
FsNormalize(p) ==
  LET n == Normalize(p) IN
  IF ~n.abs /\ n.segs # <<>> /\ n.segs[1] = "~"
    THEN Abs(HomeDir.segs \o Tail(n.segs))
  ELSE n

RECURSIVE ResolveEnvSegs(_)
ResolveEnvSegs(segs) ==
  IF segs = <<>> THEN <<>>
  ELSE (IF Head(segs) \in DOMAIN EnvVars THEN EnvVars[Head(segs)].segs
        ELSE <<Head(segs)>>) \o ResolveEnvSegs(Tail(segs))

\* resolve-env: every $NAME is replaced by the value of the variable
resolveEnv(p) ==
  [abs |-> IF p.segs # <<>> /\ p.segs[1] \in DOMAIN EnvVars
             THEN EnvVars[p.segs[1]].abs ELSE p.abs,
   segs |-> ResolveEnvSegs(p.segs)]

cleanPath(path) == IF Truthy(path) THEN resolveEnv(FsNormalize(path)) ELSE EmptyStr

-----------------------------------------------------------------------------
(* npm get prefix *)

\* ChildProcess.spawnSync did not run (the value is cached or not needed)
NotRun == [kind |-> "notRun"]

\* What spawnSync('npm', ['get', 'prefix']) can return.  output is null (here
\* the empty tuple) when the command cannot be spawned, so that reading
\* output[1] throws; otherwise output[1] (here output[2]) is the stdout of the
\* command (given here as the path it holds once trimmed), whatever the exit
\* status or the signal that ended it.
NpmOutcomes ==
  { [kind |-> "spawnError", output |-> <<>>],
    [kind |-> "exit0", output |-> <<Null, Abs(<<"usr">>), EmptyStr>>],
    [kind |-> "exitNonZero", output |-> <<Null, EmptyStr, EmptyStr>>],
    [kind |-> "killed", output |-> <<Null, EmptyStr, EmptyStr>>] }

NoError == "none"

\* getNodePrefixPath with the assignment to the cache left out
getNodePrefixPath_NotStored(cache, npm) ==
  IF cache = Null
    THEN IF npm.output = <<>>
           THEN [threw |-> "PrefixResolutionError", value |-> Null,
                 cache |-> cache, ranNpm |-> TRUE]
         ELSE [threw |-> NoError, value |-> npm.output[2],
               cache |-> cache, ranNpm |-> TRUE]
  ELSE [threw |-> NoError, value |-> cache, cache |-> cache, ranNpm |-> FALSE]

\* getNodePrefixPath with the cache value `cache`, npm answering `npm`:
\* what is thrown or returned, and the cache afterwards.
getNodePrefixPath(cache, npm) ==
  IF cache = Null
    THEN IF npm.output = <<>>
           \* output[1] of null throws inside the try: the catch rethrows
           THEN [threw |-> "PrefixResolutionError", value |-> Null,
                 cache |-> cache, ranNpm |-> TRUE]
         ELSE [threw |-> NoError, value |-> npm.output[2],
               cache |-> npm.output[2], ranNpm |-> TRUE]
  ELSE [threw |-> NoError, value |-> cache, cache |-> cache, ranNpm |-> FALSE]

-----------------------------------------------------------------------------
(* findESLintDirectory *)

\* line 57: configGlobal || getNodePrefixPath()
prefixPathOf(configGlobal, cache, npm) ==
  IF Truthy(configGlobal)
    THEN [threw |-> NoError, value |-> configGlobal, cache |-> cache, ranNpm |-> FALSE]
  ELSE getNodePrefixPath(cache, npm)

\* lines 59-63: <prefix>/node_modules/eslint if it is a directory, else
\* <prefix>/lib/node_modules/eslint
globalDirOf(first, second, cwdv) == IF isDirectory(first, cwdv) THEN first ELSE second

\* lines 55-63: the global branch, pre being the prefix of line 57
globalBranch(pre, cwdv) ==
  IF pre.threw # NoError
    THEN [threw |-> pre.threw, eslintDir |-> Null, locationType |-> "global",
          cache |-> pre.cache, ranNpm |-> pre.ranNpm]
  ELSE [threw |-> NoError,
        eslintDir |-> globalDirOf(
          Join(<<pre.value, Rel(<<"node_modules">>), Rel(<<"eslint">>)>>),
          Join(<<pre.value, Rel(<<"lib">>), Rel(<<"node_modules">>), Rel(<<"eslint">>)>>),
          cwdv),
        locationType |-> "global", cache |-> pre.cache, ranNpm |-> pre.ranNpm]

\* lines 64-73: the local branches, cleaned being cleanPath(advanced)
localBranch(advanced, cleaned, modulesDir, projectPath, cache) ==
  IF ~Truthy(advanced) THEN
    [threw |-> NoError,
     eslintDir |-> Join(<<IF Truthy(modulesDir) THEN modulesDir ELSE EmptyStr,
                          Rel(<<"eslint">>)>>),
     locationType |-> "local project", cache |-> cache, ranNpm |-> FALSE]
  ELSE IF IsAbsolute(cleaned) THEN
    [threw |-> NoError,
     eslintDir |-> Join(<<cleaned, Rel(<<"eslint">>)>>),
     locationType |-> "advanced specified", cache |-> cache, ranNpm |-> FALSE]
  ELSE
    [threw |-> NoError,
     eslintDir |-> Join(<<IF Truthy(projectPath) THEN projectPath ELSE EmptyStr,
                          cleaned, Rel(<<"eslint">>)>>),
     locationType |-> "advanced specified", cache |-> cache, ranNpm |-> FALSE]

\* lines 52-73: the directory to try and its location type, or the error of
\* getNodePrefixPath
eslintDirOf(modulesDir, config, projectPath, cache, npm, cwdv) ==
  IF config.useGlobalEslint
    THEN globalBranch(prefixPathOf(cleanPath(config.globalNodePath), cache, npm), cwdv)
  ELSE localBranch(config.advancedLocalNodeModules,
                   cleanPath(config.advancedLocalNodeModules),
                   modulesDir, projectPath, cache)

\* lines 74-85 without the throw of global mode
locationOf_FallbackInGlobal(eslintDir, locationType, config, cwdv) ==
  IF isDirectory(eslintDir, cwdv)
    THEN [threw |-> NoError, value |-> [path |-> eslintDir, type |-> locationType]]
  ELSE [threw |-> NoError,
        value |-> [path |-> ESLINT_LOCAL_PATH, type |-> "bundled fallback"]]

\* lines 74-85: the directory if it exists, else the error of global mode,
\* else the bundled fallback
locationOf(eslintDir, locationType, config, cwdv) ==
  IF isDirectory(eslintDir, cwdv)
    THEN [threw |-> NoError, value |-> [path |-> eslintDir, type |-> locationType]]
  ELSE IF config.useGlobalEslint
    THEN [threw |-> "PackageNotFoundError", value |-> Null]
  ELSE [threw |-> NoError,
        value |-> [path |-> ESLINT_LOCAL_PATH, type |-> "bundled fallback"]]

\* the outcome l of lines 74-85 with the directory d it was decided for
locatedAt(l, d) ==
  [threw |-> l.threw, value |-> l.value, eslintDir |-> d.eslintDir,
   cache |-> d.cache, ranNpm |-> d.ranNpm]

\* lines 74-85 after lines 52-73 gave d
locate(d, config, cwdv) ==
  IF d.threw # NoError
    THEN [threw |-> d.threw, value |-> Null, eslintDir |-> Null,
          cache |-> d.cache, ranNpm |-> d.ranNpm]
  ELSE locatedAt(locationOf(d.eslintDir, d.locationType, config, cwdv), d)

findESLintDirectory(modulesDir, config, projectPath, cache, npm, cwdv) ==
  locate(eslintDirOf(modulesDir, config, projectPath, cache, npm, cwdv), config, cwdv)

-----------------------------------------------------------------------------
(* getESLintFromDirectory *)

\* what require(ESLintDirectory) can do: load the module, throw an error
\* whose code is MODULE_NOT_FOUND, or throw any other error (a syntax error,
\* an exception of the module's own code)
LoadOutcomes == {"loaded", "MODULE_NOT_FOUND", "otherError"}

\* lines 90-99: the module required, or the error thrown
requireOf(location, config, load) ==
  IF load = "loaded"
    THEN [threw |-> NoError, module |-> location.path]
  ELSE IF config.useGlobalEslint /\ load = "MODULE_NOT_FOUND"
    THEN [threw |-> "PackageNotFoundError", module |-> Null]
  ELSE [threw |-> NoError, module |-> ESLINT_LOCAL_PATH]

\* the outcome m of lines 90-99 with the location f it was loaded from
loadedFrom(m, f, load) ==
  [threw |-> m.threw, value |-> m.module, location |-> f.value,
   eslintDir |-> f.eslintDir, cache |-> f.cache, ranNpm |-> f.ranNpm, load |-> load]

\* lines 88-100, found being what findESLintDirectory of line 89 did
getESLintFromDirectory(found, config, load) ==
  IF found.threw # NoError
    THEN [threw |-> found.threw, value |-> Null, location |-> Null,
          eslintDir |-> found.eslintDir, cache |-> found.cache,
          ranNpm |-> found.ranNpm, load |-> "notRun"]
  ELSE loadedFrom(requireOf(found.value, config, load), found, load)

-----------------------------------------------------------------------------
(* getRelativePath *)

\* lines 144-148: an ignore file was found
atIgnoreDir(ignoreDir, filePath) ==
  [chdir |-> ignoreDir, value |-> Relative(ignoreDir, filePath, ignoreDir)]

\* lines 144-156, ignoreFile being the result of line 140
relativeTo(ignoreFile, fileDir, filePath, projectPath) ==
  IF Truthy(ignoreFile)
    THEN atIgnoreDir(Dirname(ignoreFile), filePath)
  ELSE IF Truthy(projectPath)
    THEN [chdir |-> projectPath, value |-> Relative(projectPath, filePath, projectPath)]
  ELSE [chdir |-> fileDir, value |-> Basename(filePath)]

\* getRelativePath looking for the ignore file whatever the policy says
getRelativePath_IgnoresSetting(fileDir, filePath, config, projectPath) ==
  relativeTo(findCached(fileDir, <<Rel(<<".eslintignore">>)>>),
             fileDir, filePath, projectPath)

\* lines 139-157: the directory chdir is called with and the path returned
getRelativePath(fileDir, filePath, config, projectPath) ==
  relativeTo(IF config.disableEslintIgnore THEN Null
             ELSE findCached(fileDir, <<Rel(<<".eslintignore">>)>>),
             fileDir, filePath, projectPath)

-----------------------------------------------------------------------------
(* refreshModulesPath, getESLintInstance *)

\* lines 102-109: the cache and the environment after refreshModulesPath
refreshModulesPath(modulesDir, last, nodePath) ==
  IF last # modulesDir
    THEN [last |-> modulesDir,
          nodePath |-> IF Truthy(modulesDir) THEN modulesDir ELSE EmptyStr]
  ELSE [last |-> last, nodePath |-> nodePath]

\* findCached(...) || ''
orEmpty(found) == IF Truthy(found) THEN found ELSE EmptyStr

\* line 112: the directory that holds the nearest node_modules/eslint
modulesDirOf(fileDir) ==
  Dirname(orEmpty(findCached(fileDir, <<Rel(<<"node_modules", "eslint">>)>>)))

-----------------------------------------------------------------------------
(* The inputs of the calls *)

\* the filesystem of the process model: every prefix of these is a directory
LeafDirs ==
  { <<"usr", "lib", "node_modules", "eslint">>,
    <<"opt", "node_modules", "eslint">>,
    <<"home">>,
    <<"atom", "lib">>,
    <<"atom", "node_modules", "eslint">>,
    <<"p", "node_modules", "eslint">>,
    <<"p", "src">>,
    <<"p", "lib">>,
    <<"q", "src">>,
    <<"q", "eslint">>,
    <<"q", "tools", "eslint">> }

ProjectDirs == UNION { { SubSeq(l, 1, n) : n \in 0..Len(l) } : l \in LeafDirs }

ProjectFiles == { <<"p", ".eslintignore">>, <<"p", "src", ".eslintignore">> }

Policy(useGlobal, globalPath, advanced, disable) ==
  [useGlobalEslint |-> useGlobal, globalNodePath |-> globalPath,
   advancedLocalNodeModules |-> advanced, disableEslintIgnore |-> disable]

\* the policies of the package lookups: global without and with a path
\* override (an advanced path set too in one of them), and the three local
\* forms
Policies ==
  { Policy(TRUE, EmptyStr, EmptyStr, FALSE),
    Policy(TRUE, Rel(<<"$OPT">>), Rel(<<"tools">>), FALSE),
    Policy(TRUE, Rel(<<"~", "g">>), EmptyStr, FALSE),
    Policy(FALSE, EmptyStr, EmptyStr, FALSE),
    Policy(FALSE, EmptyStr, Abs(<<"p", "node_modules">>), FALSE),
    Policy(FALSE, EmptyStr, Rel(<<"tools">>), FALSE) }

\* the policies of getRelativePath, which reads disableEslintIgnore alone
IgnorePolicies == { Policy(FALSE, EmptyStr, EmptyStr, d) : d \in BOOLEAN }

FileDirs == { Abs(<<"p", "src">>), Abs(<<"p", "lib">>), Abs(<<"q", "src">>) }

ProjectPaths == { Null, Abs(<<"p">>), Abs(<<"q">>) }

\* the project roots of the package lookups
LookupProjectPaths == { Null, Abs(<<"q">>) }

\* the directories of the files getESLintInstance is called for: one below a
\* node_modules/eslint, one below none
LookupFileDirs == { Abs(<<"p", "src">>), Abs(<<"q", "src">>) }

ModulesDirs == { EmptyStr, Abs(<<"p", "node_modules">>) }

\* npm is run only by a global lookup without a path override, cache unset
NpmFor(config, cache) ==
  IF config.useGlobalEslint /\ ~Truthy(cleanPath(config.globalNodePath)) /\ cache = Null
    THEN NpmOutcomes ELSE {NotRun}

\* require runs once a location is found; the bundled package always loads
LoadFor(f) ==
  IF f.threw # NoError THEN {"notRun"}
  ELSE IF f.value.path = ESLINT_LOCAL_PATH THEN {"loaded"}
  ELSE LoadOutcomes

NoCall == [op |-> "none"]

NoRet == [threw |-> NoError]

-----------------------------------------------------------------------------
(* The process: any sequence of calls *)

FsUnchanged == UNCHANGED <<dirs, files, embedded>>

\* the directory the process is started in
InitialCwd == Abs(<<>>)

Init ==
  /\ NODE_PREFIX_PATH = Null
  /\ LAST_MODULES_PATH = Null
  /\ NODE_PATH = EmptyStr
  /\ cwd = InitialCwd
  /\ dirs = ProjectDirs
  /\ files = ProjectFiles
  /\ embedded = {}
  /\ call = NoCall
  /\ ret = NoRet

GetNodePrefixPath ==
  \E npm \in (IF NODE_PREFIX_PATH = Null THEN NpmOutcomes ELSE {NotRun}) :
    \E r \in {getNodePrefixPath(NODE_PREFIX_PATH, npm)} :
      /\ call' = [op |-> "getNodePrefixPath", cacheBefore |-> NODE_PREFIX_PATH,
                  npm |-> npm.kind]
      /\ ret' = [threw |-> r.threw, value |-> r.value, ranNpm |-> r.ranNpm]
      /\ NODE_PREFIX_PATH' = r.cache
      /\ UNCHANGED <<LAST_MODULES_PATH, NODE_PATH, cwd>>
      /\ FsUnchanged

FindESLintDirectory ==
  \E modulesDir \in ModulesDirs, config \in Policies, projectPath \in LookupProjectPaths :
    \E npm \in NpmFor(config, NODE_PREFIX_PATH) :
      \E r \in {findESLintDirectory(modulesDir, config, projectPath,
                                    NODE_PREFIX_PATH, npm, cwd)} :
        /\ call' = [op |-> "findESLintDirectory", modulesDir |-> modulesDir,
                    config |-> config, projectPath |-> projectPath,
                    cacheBefore |-> NODE_PREFIX_PATH, npm |-> npm.kind]
        /\ ret' = [threw |-> r.threw, value |-> r.value, eslintDir |-> r.eslintDir,
                   ranNpm |-> r.ranNpm]
        /\ NODE_PREFIX_PATH' = r.cache
        /\ UNCHANGED <<LAST_MODULES_PATH, NODE_PATH, cwd>>
        /\ FsUnchanged

GetESLintFromDirectory ==
  \E modulesDir \in ModulesDirs, config \in Policies, projectPath \in LookupProjectPaths :
    \E npm \in NpmFor(config, NODE_PREFIX_PATH) :
      \E found \in {findESLintDirectory(modulesDir, config, projectPath,
                                        NODE_PREFIX_PATH, npm, cwd)} :
        \E load \in LoadFor(found) :
          \E r \in {getESLintFromDirectory(found, config, load)} :
            /\ call' = [op |-> "getESLintFromDirectory", modulesDir |-> modulesDir,
                        config |-> config, projectPath |-> projectPath,
                        cacheBefore |-> NODE_PREFIX_PATH, npm |-> npm.kind]
            /\ ret' = [threw |-> r.threw, value |-> r.value, location |-> r.location,
                       eslintDir |-> r.eslintDir, ranNpm |-> r.ranNpm, load |-> r.load]
            /\ NODE_PREFIX_PATH' = r.cache
            /\ UNCHANGED <<LAST_MODULES_PATH, NODE_PATH, cwd>>
            /\ FsUnchanged

GetESLintInstance ==
  \E fileDir \in LookupFileDirs, config \in Policies, projectPath \in LookupProjectPaths :
    \E npm \in NpmFor(config, NODE_PREFIX_PATH) :
      \E modulesDir \in {modulesDirOf(fileDir)} :
        \E m \in {refreshModulesPath(modulesDir, LAST_MODULES_PATH, NODE_PATH)},
           found \in {findESLintDirectory(modulesDir, config, projectPath,
                                          NODE_PREFIX_PATH, npm, cwd)} :
          \E load \in LoadFor(found) :
            \E r \in {getESLintFromDirectory(found, config, load)} :
              /\ call' = [op |-> "getESLintInstance", fileDir |-> fileDir,
                          modulesDir |-> modulesDir,
                          config |-> config, projectPath |-> projectPath,
                          cacheBefore |-> NODE_PREFIX_PATH, npm |-> npm.kind]
              /\ ret' = [threw |-> r.threw, value |-> r.value, location |-> r.location,
                         eslintDir |-> r.eslintDir, ranNpm |-> r.ranNpm, load |-> r.load]
              /\ NODE_PREFIX_PATH' = r.cache
              /\ LAST_MODULES_PATH' = m.last
              /\ NODE_PATH' = m.nodePath
              /\ UNCHANGED cwd
              /\ FsUnchanged

GetRelativePath ==
  \E fileDir \in FileDirs, config \in IgnorePolicies, projectPath \in ProjectPaths :
    \E filePath \in {Join(<<fileDir, Rel(<<"f.js">>)>>)} :
      \E r \in {getRelativePath(fileDir, filePath, config, projectPath)} :
        /\ call' = [op |-> "getRelativePath", fileDir |-> fileDir, filePath |-> filePath,
                    config |-> config, projectPath |-> projectPath]
        /\ ret' = [threw |-> NoError, value |-> r.value]
        /\ cwd' = r.chdir
        /\ UNCHANGED <<NODE_PREFIX_PATH, LAST_MODULES_PATH, NODE_PATH>>
        /\ FsUnchanged

Next ==
  \/ GetNodePrefixPath
  \/ FindESLintDirectory
  \/ GetESLintFromDirectory
  \/ GetESLintInstance
  \/ GetRelativePath

Spec == Init /\ [][Next]_vars

-----------------------------------------------------------------------------
(* getConfigPath *)

\* line 120: the candidate names, in the order findCached tries them
ConfigNames ==
  << Rel(<<".eslintrc.js">>), Rel(<<".eslintrc.yaml">>), Rel(<<".eslintrc.yml">>),
     Rel(<<".eslintrc.json">>), Rel(<<".eslintrc">>), Rel(<<"package.json">>) >>

\* the deepest directory of the trees searched is Depth levels below the root
Depth == 2

\* a directory of the trees searched holds at most MaxFiles candidate files
MaxFiles == 2

\* The call stack of the runtime is finite: a recursion that never returns
\* ends with a RangeError.  No search of a tree Depth deep needs this many
\* frames.
StackLimit == Depth + 3

RECURSIVE getConfigPath(_, _), configPathOf(_, _)
\* lines 117-137, as frame number `frame` of the recursion
getConfigPath(fileDir, frame) ==
  IF frame > StackLimit THEN [threw |-> "RangeError", value |-> Null]
  ELSE configPathOf(findCached(fileDir, ConfigNames), frame)

\* lines 122-136, configFile being the result of lines 118-121
configPathOf(configFile, frame) ==
  IF Truthy(configFile) THEN
    IF Basename(configFile) = Rel(<<"package.json">>) THEN
      IF configFile.segs \in embedded
        THEN [threw |-> NoError, value |-> configFile]
      ELSE getConfigPath(Resolve(Dirname(configFile), Rel(<<"..">>)), frame + 1)
    ELSE [threw |-> NoError, value |-> configFile]
  ELSE [threw |-> NoError, value |-> Null]

\* the directories of a tree: /, /d, /d/d, ...
ChainDir(n) == Abs([i \in 1..n |-> "d"])

\* what one directory may hold: at most MaxFiles of the candidate names
Contents ==
  { c \in SUBSET { ConfigNames[i].segs[1] : i \in 1..Len(ConfigNames) } :
      Cardinality(c) <= MaxFiles }

InitConfig ==
  /\ NODE_PREFIX_PATH = Null
  /\ LAST_MODULES_PATH = Null
  /\ NODE_PATH = EmptyStr
  /\ cwd = InitialCwd
  /\ dirs = { ChainDir(n).segs : n \in 0..Depth }
  /\ \E holds \in [0..Depth -> Contents] :
       /\ files = UNION { { Append(ChainDir(n).segs, name) : name \in holds[n] } :
                            n \in 0..Depth }
       /\ embedded \in SUBSET { Append(ChainDir(n).segs, "package.json") :
                                  n \in { k \in 0..Depth : "package.json" \in holds[k] } }
  /\ call = NoCall
  /\ ret = NoRet

GetConfigPath ==
  \E fileDir \in { ChainDir(n) : n \in 0..Depth } :
    /\ call' = [op |-> "getConfigPath", fileDir |-> fileDir]
    /\ ret' = getConfigPath(fileDir, 1)
    /\ UNCHANGED <<NODE_PREFIX_PATH, LAST_MODULES_PATH, NODE_PATH, cwd>>
    /\ FsUnchanged

NextConfig == GetConfigPath

SpecConfig == InitConfig /\ [][NextConfig]_vars

-----------------------------------------------------------------------------
(* getRules, didRulesChange *)

\* A Map of rules is the sequence of its <<rule id, rule properties>> entries
\* in insertion order, no id twice.
RuleIds == {"x", "y", "z"}

RuleProperties == {"off", "error"}

\* a rule Map holds at most MaxRules rules
MaxRules == 2

RuleMaps ==
  { m \in UNION { [1..n -> RuleIds \X RuleProperties] : n \in 0..MaxRules } :
      \A i, j \in DOMAIN m : m[i][1] = m[j][1] => i = j }

\* new Set(rules.keys())
KeySet(rules) == { rules[i][1] : i \in DOMAIN rules }

\* ids.forEach(rule => from.delete(rule)), from being a fresh Set
DeleteEach(from, ids) == from \ ids

\* didRulesChange without the check for removed rules
didRulesChange_AddedOnly(currentRules, newRules) ==
  [value |-> Cardinality(DeleteEach(KeySet(newRules), KeySet(currentRules))) > 0,
   currentRules |-> currentRules,
   newRules |-> newRules]

\* lines 218-238: the value returned, and the two Maps as the call leaves them
didRulesChange(currentRules, newRules) ==
  [value |-> \/ Cardinality(DeleteEach(KeySet(newRules), KeySet(currentRules))) > 0
             \/ Cardinality(DeleteEach(KeySet(currentRules), KeySet(newRules))) > 0,
   currentRules |-> currentRules,
   newRules |-> newRules]

\* Object.prototype.hasOwnProperty.call(cliEngine, name): the engine holds
\* the property itself, not through its prototype chain
hasOwnProperty(cliEngine, name) == cliEngine[name] = "own"

\* lines 193-209
getRules(cliEngine) ==
  IF hasOwnProperty(cliEngine, "getRules") THEN cliEngine.rules
  ELSE IF hasOwnProperty(cliEngine, "linter") THEN cliEngine.linterRules
  ELSE <<>>

\* The engines: getRules is a property of the instance, a method inherited
\* from the class, or missing; linter is a property of the instance or
\* missing; rules is what the engine's getRules returns and linterRules what
\* its linter's getRules returns.
Engines ==
  [getRules : {"own", "inherited", "none"}, linter : {"own", "none"},
   rules : { m \in RuleMaps : Len(m) <= 1 },
   linterRules : { m \in RuleMaps : Len(m) <= 1 }]

InitRules ==
  /\ NODE_PREFIX_PATH = Null
  /\ LAST_MODULES_PATH = Null
  /\ NODE_PATH = EmptyStr
  /\ cwd = InitialCwd
  /\ dirs = {<<>>}
  /\ files = {}
  /\ embedded = {}
  /\ call = NoCall
  /\ ret = NoRet

ProcessUnchanged == UNCHANGED <<NODE_PREFIX_PATH, LAST_MODULES_PATH, NODE_PATH, cwd>>

\* the two functions read nothing of the process: each behaviour is one call
DidRulesChange ==
  \E currentRules \in RuleMaps, newRules \in RuleMaps :
    \E r \in {didRulesChange(currentRules, newRules)} :
      /\ call = NoCall
      /\ call' = [op |-> "didRulesChange", currentRules |-> currentRules,
                  newRules |-> newRules]
      /\ ret' = [threw |-> NoError, value |-> r.value,
                 currentRules |-> r.currentRules, newRules |-> r.newRules]
      /\ ProcessUnchanged /\ FsUnchanged

GetRules ==
  \E cliEngine \in Engines :
    /\ call = NoCall
    /\ call' = [op |-> "getRules", cliEngine |-> cliEngine]
    /\ ret' = [threw |-> NoError, value |-> getRules(cliEngine)]
    /\ ProcessUnchanged /\ FsUnchanged

NextRules == DidRulesChange \/ GetRules

SpecRules == InitRules /\ [][NextRules]_vars

-----------------------------------------------------------------------------
(* Properties of the package lookup *)

LookupOps == {"findESLintDirectory", "getESLintFromDirectory", "getESLintInstance"}

\* the location type the policy asks for
KindOf(config) ==
  IF config.useGlobalEslint THEN "global"
  ELSE IF ~Truthy(config.advancedLocalNodeModules) THEN "local project"
  ELSE "advanced specified"

BundledFallback == [path |-> ESLINT_LOCAL_PATH, type |-> "bundled fallback"]

\* the three outcomes of findESLintDirectory for the directory it computed
ThreeOutcomes ==
  /\ isDirectory(ret.eslintDir, cwd) =>
       /\ ret.threw = NoError
       /\ ret.value = [path |-> ret.eslintDir, type |-> KindOf(call.config)]
  /\ (~isDirectory(ret.eslintDir, cwd) /\ call.config.useGlobalEslint) =>
       /\ ret.threw = "PackageNotFoundError"
       /\ ret.value = Null
  /\ (~isDirectory(ret.eslintDir, cwd) /\ ~call.config.useGlobalEslint) =>
       /\ ret.threw = NoError
       /\ ret.value = BundledFallback

\* C1, as stated: every call of findESLintDirectory ends in one of three
\* ways, decided by useGlobalEslint and by whether the directory computed
\* exists: the directory with the location type of the policy, the
\* package-not-found error (global mode), or the bundled fallback.
C1_ExactlyThreeOutcomes ==
  call.op = "findESLintDirectory" =>
    /\ ret.eslintDir # Null
    /\ ThreeOutcomes

\* C1, amended: a call of findESLintDirectory that computes a directory ends
\* in one of the three ways; the only call that computes none is a global
\* lookup without path override whose npm command cannot be spawned while the
\* prefix is not cached, and it fails with the prefix-resolution error.  A
\* location returned that is not the bundled fallback is an existing
\* directory.
C1_OutcomesOfLookup ==
  call.op = "findESLintDirectory" =>
    /\ ret.eslintDir # Null => ThreeOutcomes
    /\ ret.eslintDir = Null <=>
         /\ call.config.useGlobalEslint
         /\ ~Truthy(call.config.globalNodePath)
         /\ call.cacheBefore = Null
         /\ call.npm = "spawnError"
    /\ ret.eslintDir = Null => (ret.threw = "PrefixResolutionError" /\ ret.value = Null)
    /\ (ret.threw = NoError /\ ret.value.type # "bundled fallback") =>
         isDirectory(ret.value.path, cwd)

\* a global lookup with an advanced path set too, whose directory is missing:
\* the error, not the fallback
C1_Witness ==
  /\ call.op = "findESLintDirectory"
  /\ call.config.useGlobalEslint
  /\ Truthy(call.config.globalNodePath)
  /\ ret.eslintDir = Abs(<<"home", "g", "lib", "node_modules", "eslint">>)
  /\ ret.threw = "PackageNotFoundError"

\* C2: when require of the located package fails, global mode fails with the
\* package-not-found error whatever the failure is, and any other mode
\* returns the bundled module without an error.
C2_GlobalLoadFailureIsFatal ==
  (call.op \in {"getESLintFromDirectory", "getESLintInstance"}
     /\ ret.load \in {"MODULE_NOT_FOUND", "otherError"}) =>
    IF call.config.useGlobalEslint
      THEN ret.threw = "PackageNotFoundError" /\ ret.value # ESLINT_LOCAL_PATH
    ELSE ret.threw = NoError /\ ret.value = ESLINT_LOCAL_PATH

\* C4: when npm cannot be spawned, or exits with a status other than 0, or is
\* killed, getNodePrefixPath and the global lookup that called it fail with
\* the prefix-resolution error, and the prefix cache stays unset.
C4_AbnormalNpmIsAnError ==
  (call.op \in LookupOps \cup {"getNodePrefixPath"}
     /\ call.npm \in {"spawnError", "exitNonZero", "killed"}) =>
    /\ ret.threw = "PrefixResolutionError"
    /\ NODE_PREFIX_PATH = Null

\* what the last call shows of the prefix cache
PrefixCacheOfCall ==
  call.op \in LookupOps \cup {"getNodePrefixPath"} =>
    \* a cached prefix is returned as it is, npm is not run, the cache stays
    /\ call.cacheBefore # Null =>
         /\ ~ret.ranNpm
         /\ NODE_PREFIX_PATH = call.cacheBefore
         /\ call.op = "getNodePrefixPath" =>
              (ret.threw = NoError /\ ret.value = call.cacheBefore)
    \* the value a call returns is the value cached from then on
    /\ (call.op = "getNodePrefixPath" /\ ret.threw = NoError) =>
         NODE_PREFIX_PATH = ret.value
    \* a failed call ran npm and leaves the cache unset, and a call that
    \* finds the cache unset runs npm
    /\ ret.threw = "PrefixResolutionError" =>
         (ret.ranNpm /\ NODE_PREFIX_PATH = Null)
    /\ (call.op = "getNodePrefixPath" /\ call.cacheBefore = Null) => ret.ranNpm
    \* a global lookup with a path override does not run npm
    /\ (call.op \in LookupOps /\ call.config.useGlobalEslint
          /\ Truthy(call.config.globalNodePath)) =>
         (~ret.ranNpm /\ NODE_PREFIX_PATH = call.cacheBefore)
    \* no other lookup than a global one runs npm
    /\ (call.op \in LookupOps /\ ~call.config.useGlobalEslint) => ~ret.ranNpm

\* C5: once getNodePrefixPath has returned a value, npm is not run again and
\* every later call returns that value, no operation resets or overwrites the
\* cache; a call that fails leaves the cache unset and the next call runs npm
\* again; a global lookup with a path override never runs npm.
C5_PrefixMemoized ==
  /\ []PrefixCacheOfCall
  /\ [][NODE_PREFIX_PATH # Null => NODE_PREFIX_PATH' = NODE_PREFIX_PATH]_vars

\* a second call of getNodePrefixPath after a first that cached /usr
C5_Witness ==
  /\ call.op = "getNodePrefixPath"
  /\ call.cacheBefore = Abs(<<"usr">>)
  /\ ~ret.ranNpm
  /\ ret.value = Abs(<<"usr">>)

-----------------------------------------------------------------------------
(* Properties of getRelativePath *)

\* the directories from dir up to the root
Ancestors(dir) == { Abs(SubSeq(dir.segs, 1, n)) : n \in 0..Len(dir.segs) }

\* the directories above fileDir (fileDir included) that hold an ignore file
IgnoreDirs(fileDir) ==
  { d \in Ancestors(fileDir) : Append(d.segs, ".eslintignore") \in files }

\* the working directory the call has to choose
WorkingDirOf(c) ==
  IF ~c.config.disableEslintIgnore /\ IgnoreDirs(c.fileDir) # {}
    THEN CHOOSE d \in IgnoreDirs(c.fileDir) :
           \A e \in IgnoreDirs(c.fileDir) : Len(e.segs) <= Len(d.segs)
  ELSE IF c.projectPath # Null THEN c.projectPath
  ELSE c.fileDir

\* C7: after every call of getRelativePath, whatever was called before, the
\* working directory is the directory of the nearest ignore file above
\* fileDir if the lookup is enabled and one exists, else the project root if
\* one is given, else fileDir; the path returned is filePath relative to it
\* (resolved against the working directory it names filePath).
C7_WorkingDirectory ==
  call.op = "getRelativePath" =>
    /\ cwd = WorkingDirOf(call)
    /\ ret.value = Relative(cwd, call.filePath, cwd)
    /\ Resolve(cwd, ret.value) = call.filePath
    /\ (call.projectPath = Null /\ cwd = call.fileDir) => ret.value = Rel(<<"f.js">>)

\* the lookup disabled, an ignore file beside the file, another project root
C7_Witness ==
  /\ call.op = "getRelativePath"
  /\ call.config.disableEslintIgnore
  /\ call.fileDir = Abs(<<"p", "src">>)
  /\ call.projectPath = Abs(<<"q">>)
  /\ cwd = Abs(<<"q">>)
  /\ ret.value = Rel(<<"..", "p", "src", "f.js">>)

-----------------------------------------------------------------------------
(* The lookup and the working directory *)

NpmOfKind(kind) ==
  IF kind = "notRun" THEN NotRun ELSE CHOOSE o \in NpmOutcomes : o.kind = kind

\* C10: the location getESLintInstance and findESLintDirectory choose after
\* any calls of getRelativePath is the one they choose with the same
\* arguments when no such call came before (the process still stands in its
\* initial working directory); without node_modules/eslint above the file
\* (local mode, no advanced path), or with a relative advanced path and no
\* project root, it is the bundled fallback.  Stated for the calls that do
\* not work with an empty npm prefix, which only an npm that ended
\* abnormally leaves behind.
C10_LocationIndependentOfCwd ==
  (call.op \in {"getESLintInstance", "findESLintDirectory"}
     /\ NODE_PREFIX_PATH # EmptyStr) =>
    /\ findESLintDirectory(call.modulesDir, call.config, call.projectPath,
                           call.cacheBefore, NpmOfKind(call.npm), InitialCwd).value
         = (IF call.op = "getESLintInstance" THEN ret.location ELSE ret.value)
    /\ (call.op = "getESLintInstance" /\ call.modulesDir \in {EmptyStr, Dot}
          /\ KindOf(call.config) = "local project") =>
         ret.location = BundledFallback
    /\ (call.op = "getESLintInstance" /\ KindOf(call.config) = "advanced specified"
          /\ ~IsAbsolute(cleanPath(call.config.advancedLocalNodeModules))
          /\ call.projectPath = Null) =>
         ret.location = BundledFallback

-----------------------------------------------------------------------------
(* Properties of getConfigPath *)

\* a candidate name that makes directory d a config source: a config file of
\* its own format, or a package.json with an eslintConfig section
ValidNames(d) ==
  { i \in 1..Len(ConfigNames) :
      /\ Append(d.segs, ConfigNames[i].segs[1]) \in files
      /\ ConfigNames[i] = Rel(<<"package.json">>) =>
           Append(d.segs, "package.json") \in embedded }

ValidDirs(fileDir) == { d \in Ancestors(fileDir) : ValidNames(d) # {} }

\* the config source nearest to fileDir: in the deepest valid directory, the
\* first candidate name that exists there
NearestConfig(fileDir) ==
  IF ValidDirs(fileDir) = {} THEN Null
  ELSE LET d == CHOOSE v \in ValidDirs(fileDir) :
                  \A e \in ValidDirs(fileDir) : Len(e.segs) <= Len(v.segs)
           first == CHOOSE i \in 1..Len(ConfigNames) :
                      /\ Append(d.segs, ConfigNames[i].segs[1]) \in files
                      /\ \A j \in 1..(i - 1) :
                           Append(d.segs, ConfigNames[j].segs[1]) \notin files
       IN Join(<<d, ConfigNames[first]>>)

\* C3: getConfigPath ends with a value for every tree and every start, and
\* the value is null when no directory up to the root holds a config source,
\* a package.json without eslintConfig in the root directory included.
C3_ReturnsNullWithoutSource ==
  call.op = "getConfigPath" =>
    /\ ret.threw = NoError
    /\ ValidDirs(call.fileDir) = {} => ret.value = Null

\* C6: getConfigPath returns the config source of the nearest directory that
\* holds one, the first existing candidate name in it, and null when there is
\* none.
C6_NearestConfigSource ==
  call.op = "getConfigPath" =>
    /\ ret.threw = NoError
    /\ ret.value = NearestConfig(call.fileDir)

\* What holds of getConfigPath: the same, for every tree whose root directory
\* does not hold a package.json without eslintConfig as its first candidate
\* that the search reaches; there the recursion does not end.
GetConfigPathUnlessRootManifest ==
  call.op = "getConfigPath" =>
    IF ret.threw = NoError THEN ret.value = NearestConfig(call.fileDir)
    ELSE /\ ValidDirs(call.fileDir) = {}
         /\ <<"package.json">> \in files

-----------------------------------------------------------------------------
(* Properties of didRulesChange and getRules *)

HasRule(rules, id) == \E i \in DOMAIN rules : rules[i][1] = id

\* C8: didRulesChange is true exactly when some rule id is a key of one Map
\* and not of the other, whatever the values and the order of the keys, and
\* it leaves both Maps as they were.
C8_ChangedIffKeysDiffer ==
  call.op = "didRulesChange" =>
    /\ ret.value = (\E id \in RuleIds :
                      HasRule(call.currentRules, id) # HasRule(call.newRules, id))
    /\ ret.currentRules = call.currentRules
    /\ ret.newRules = call.newRules

\* the same two rules with other values and in the other order: no change
C8_Witness ==
  /\ call.op = "didRulesChange"
  /\ call.currentRules = << <<"x", "off">>, <<"y", "off">> >>
  /\ call.newRules = << <<"y", "error">>, <<"x", "off">> >>
  /\ ret.value = FALSE

\* C9: an engine that has getRules, as a property of its own or inherited,
\* yields the Map of its getRules; else an engine with a linter property
\* yields the Map of the linter; only an engine with neither yields the empty
\* Map.
C9_RulesByCapability ==
  call.op = "getRules" =>
    ret.value = (IF call.cliEngine.getRules # "none" THEN call.cliEngine.rules
                 ELSE IF call.cliEngine.linter # "none" THEN call.cliEngine.linterRules
                 ELSE <<>>)

=============================================================================
